---- MODULE Spec2Model ----
(***************************************************************************)
(* Model of the sliding-window RateLimiter of src/index.ts: one instance,  *)
(* its per-client timestamp logs, the admission check acceptRequest, the   *)
(* interval-driven sweep cleanupStaleRequests and stopCleanupTask.         *)
(***************************************************************************)
EXTENDS Integers, Sequences, FiniteSets, TLC

\* ------------------------------------------------------------------ bounds
MaxTs == 2
MaxWindow == 2
MaxQuota == 2
MaxHistory == 4

Clients == {"A", "B"}
\* Caller-supplied timestamps; -1 stands for the negative ones.
Timestamps == -1 .. MaxTs
\* Values Date.now() may return to a sweep; the largest makes every entry stale.
Instants == 0 .. (MaxTs + MaxWindow)
\* Constructor arguments, the non-positive ones included.
WindowArgs == -1 .. MaxWindow
QuotaArgs == -1 .. MaxQuota

\* The null of cleanupInterval; timer handles are positive.
NoTimer == 0

VARIABLES
    instance,         \* "none" before new RateLimiter(..), then "live", or "failed" when the constructor threw
    timeWindow,       \* this.timeWindow
    maxRequests,      \* this.maxRequests
    requests,         \* this.requests: Map<UserId, number[]>, a function on the tracked ids
    cleanupInterval,  \* this.cleanupInterval: a timer handle or NoTimer
    timers,           \* the runtime's active interval timers (setInterval / clearInterval)
    last,             \* observer: the last operation, its arguments and its outcome
    prev,             \* observer: the store, the timer and the observers before the last operation
    seen,             \* observer: the clients acceptRequest has been called for
    stopped,          \* observer: stopCleanupTask has been called
    call,             \* the acceptRequest activation on the call stack, when it is followed step by step
    admitted,         \* observer (OrderedSpec): per client, the timestamps admitted so far, in order
    lastTs,           \* observer (OrderedSpec): per client, the last timestamp submitted (-1: none yet)
    swept             \* observer (OrderedSpec): per client, a sweep has run since its first call

prog == <<instance, timeWindow, maxRequests, requests, cleanupInterval, timers>>
history == <<admitted, lastTs, swept>>
vars == <<prog, last, prev, seen, stopped, call, history>>

Op(op, id, ts, ret, threw) ==
    [op |-> op, id |-> id, ts |-> ts, tw |-> 0, mr |-> 0, ret |-> ret, val |-> 0, threw |-> threw]
CtorOp(tw, mr, threw) ==
    [op |-> "construct", id |-> "", ts |-> 0, tw |-> tw, mr |-> mr, ret |-> FALSE, val |-> 0,
     threw |-> threw]
\* A getter's call: the number it returned.
GetOp(op, id, val) ==
    [op |-> op, id |-> id, ts |-> 0, tw |-> 0, mr |-> 0, ret |-> FALSE, val |-> val, threw |-> FALSE]
\* No acceptRequest activation on the call stack.
NoCall == [active |-> FALSE, id |-> "", ts |-> 0]
Snapshot ==
    [requests |-> requests, cleanupInterval |-> cleanupInterval, timers |-> timers,
     seen |-> seen, stopped |-> stopped, call |-> call]

\* ------------------------------------------------------------- pure parts

\* The staleness test of both loops: ref - userRequests[i] >= this.timeWindow.
IsStaleClosed(ref, t) == ref - t > timeWindow
IsStale(ref, t) == ref - t >= timeWindow

\* A scan that stops after the first stale entry.
StaleScanOnce(log, ref, i) ==
    IF i < Len(log) /\ IsStale(ref, log[i + 1]) THEN i + 1 ELSE i

\* The while loop: from index i (0-based), advance while the entry is stale.
RECURSIVE StaleScan(_, _, _)
StaleScan(log, ref, i) ==
    IF i < Len(log) /\ IsStale(ref, log[i + 1])
    THEN StaleScan(log, ref, i + 1)
    ELSE i

\* let i = 0; while (...) i++;
StaleCount(log, ref) == StaleScan(log, ref, 0)

\* if (i > 0) userRequests.splice(0, i);
Splice(log, i) == IF i > 0 THEN SubSeq(log, i + 1, Len(log)) ELSE log

Prune(log, ref) == Splice(log, StaleCount(log, ref))

\* if (userRequests.length >= this.maxRequests) return false;
QuotaReachedStrict(log) == Len(log) > maxRequests
QuotaReachedEarly(log) == Len(log) >= maxRequests - 1
QuotaReached(log) == Len(log) >= maxRequests

\* if (timeWindow <= 0 || maxRequests <= 0) throw
InvalidConfigBoth(tw, mr) == tw <= 0 /\ mr <= 0
InvalidConfig(tw, mr) == tw <= 0 \/ mr <= 0

\* if (timestamp < 0) { warn; return false }
MalformedNever(ts) == FALSE
MalformedOrZero(ts) == ts <= 0
Malformed(ts) == ts < 0

Tracked == DOMAIN requests

\* A count of the entries within the window of the log's newest entry only.
getCurrentRequestCountLive(id) ==
    IF id \in DOMAIN requests
    THEN LET log == requests[id]
             newest == CHOOSE t \in {log[i] : i \in DOMAIN log} :
                           \A i \in DOMAIN log : log[i] <= t
         IN  Cardinality({i \in DOMAIN log : newest - log[i] < timeWindow})
    ELSE 0

\* this.requests.get(id)?.length || 0
getCurrentRequestCount(id) == IF id \in Tracked THEN Len(requests[id]) ELSE 0

\* this.requests.size
getTrackedUserCount == Cardinality(Tracked)

\* A fresh handle from setInterval.
NewTimer == CHOOSE h \in 1 .. (Cardinality(timers) + 1) : h \notin timers

\* The store after acceptRequest(id, ts) with every client's log pruned, not only id's.
AcceptStorePruneAll(id, ts) ==
    IF id \notin Tracked
    THEN [c \in Tracked \cup {id} |-> IF c = id THEN <<ts>> ELSE requests[c]]
    ELSE LET all == [c \in Tracked |-> Prune(requests[c], ts)] IN
         IF QuotaReached(all[id])
         THEN all
         ELSE [all EXCEPT ![id] = Append(all[id], ts)]

\* log with ts put after the entries that are not newer than it.
InsertSorted(log, ts) ==
    LET k == Cardinality({i \in DOMAIN log : log[i] <= ts})
    IN  SubSeq(log, 1, k) \o <<ts>> \o SubSeq(log, k + 1, Len(log))

\* acceptRequest(id, ts) that inserts the timestamp in order.
AcceptStoreSortedInsert(id, ts) ==
    IF id \notin Tracked
    THEN [c \in Tracked \cup {id} |-> IF c = id THEN <<ts>> ELSE requests[c]]
    ELSE LET kept == Prune(requests[id], ts) IN
         IF QuotaReached(kept)
         THEN [requests EXCEPT ![id] = kept]
         ELSE [requests EXCEPT ![id] = InsertSorted(kept, ts)]

\* acceptRequest(id, ts) that puts the timestamp at the front of the log.
AcceptStorePrepend(id, ts) ==
    IF id \notin Tracked
    THEN [c \in Tracked \cup {id} |-> IF c = id THEN <<ts>> ELSE requests[c]]
    ELSE LET kept == Prune(requests[id], ts) IN
         IF QuotaReached(kept)
         THEN [requests EXCEPT ![id] = kept]
         ELSE [requests EXCEPT ![id] = <<ts>> \o kept]

\* The store after acceptRequest(id, ts), for ts >= 0.
AcceptStore(id, ts) ==
    IF id \notin Tracked
    THEN [c \in Tracked \cup {id} |-> IF c = id THEN <<ts>> ELSE requests[c]]
    ELSE LET kept == Prune(requests[id], ts) IN
         IF QuotaReached(kept)
         THEN [requests EXCEPT ![id] = kept]
         ELSE [requests EXCEPT ![id] = Append(kept, ts)]

\* The value acceptRequest(id, ts) returns.
AcceptResult(id, ts) ==
    IF Malformed(ts) THEN FALSE
    ELSE IF id \notin Tracked THEN TRUE
    ELSE ~QuotaReached(Prune(requests[id], ts))

\* One sweep that prunes and never deletes a key.
SweepStoreKeepEmpty(now) == [c \in Tracked |-> Prune(requests[c], now)]

\* One sweep whose iteration ends at the first key it deletes ("A" comes first).
SweepStoreStopAtDelete(now) ==
    IF "A" \in Tracked /\ Len(Prune(requests["A"], now)) = 0
    THEN [c \in Tracked \ {"A"} |-> requests[c]]
    ELSE LET kept == {c \in Tracked : Len(Prune(requests[c], now)) # 0}
         IN  [c \in kept |-> Prune(requests[c], now)]

\* The store after one sweep with Date.now() = now: every tracked log pruned,
\* the keys whose log became empty deleted.
SweepStore(now) ==
    LET kept == {c \in Tracked : Len(Prune(requests[c], now)) # 0}
    IN  [c \in kept |-> Prune(requests[c], now)]

\* ---------------------------------------------------------------- actions

Init ==
    /\ instance = "none"
    /\ timeWindow = 0
    /\ maxRequests = 0
    /\ requests = <<>>
    /\ cleanupInterval = NoTimer
    /\ timers = {}
    /\ last = Op("none", "", 0, FALSE, FALSE)
    /\ seen = {}
    /\ stopped = FALSE
    /\ call = NoCall
    /\ prev = Snapshot
    /\ admitted = [c \in Clients |-> <<>>]
    /\ lastTs = [c \in Clients |-> -1]
    /\ swept = [c \in Clients |-> FALSE]

\* startCleanupTask() that sets a new interval without clearing the previous one.
startCleanupTaskNoClear ==
    /\ cleanupInterval' = NewTimer
    /\ timers' = timers \cup {NewTimer}

\* startCleanupTask(): clear the previous interval, if any, and set a new one.
startCleanupTask ==
    /\ cleanupInterval' = NewTimer
    /\ timers' = (IF cleanupInterval # NoTimer THEN timers \ {cleanupInterval} ELSE timers)
                 \cup {NewTimer}

\* new RateLimiter(tw, mr)
Construct(tw, mr) ==
    /\ instance = "none"
    /\ prev' = Snapshot
    /\ IF InvalidConfig(tw, mr)
       THEN /\ instance' = "failed"
            /\ last' = CtorOp(tw, mr, TRUE)
            /\ UNCHANGED <<timeWindow, maxRequests, requests, cleanupInterval, timers>>
       ELSE /\ instance' = "live"
            /\ timeWindow' = tw
            /\ maxRequests' = mr
            /\ requests' = <<>>
            /\ startCleanupTask
            /\ last' = CtorOp(tw, mr, FALSE)
    /\ UNCHANGED <<seen, stopped, call>>

\* acceptRequest(id, ts)
AcceptRequest(id, ts) ==
    /\ instance = "live"
    /\ prev' = Snapshot
    /\ last' = Op("accept", id, ts, AcceptResult(id, ts), FALSE)
    /\ requests' = IF Malformed(ts) THEN requests ELSE AcceptStore(id, ts)
    /\ seen' = seen \cup {id}
    /\ UNCHANGED <<instance, timeWindow, maxRequests, cleanupInterval, timers, stopped, call>>

\* A runtime that fires timer callbacks in the middle of running code.
CallStackAny == TRUE

\* The runtime runs a timer callback only when no code of the program is
\* running: a callback never interrupts an acceptRequest call.
CallStackEmpty == ~call.active

\* The interval callback, fired by the runtime while the timer is active:
\* cleanupStaleRequests() with Date.now() = now.
CleanupStaleRequests(now) ==
    /\ instance = "live"
    /\ timers # {}
    /\ CallStackEmpty
    /\ prev' = Snapshot
    /\ requests' = SweepStore(now)
    /\ last' = Op("sweep", "", now, FALSE, FALSE)
    /\ UNCHANGED <<instance, timeWindow, maxRequests, cleanupInterval, timers, seen, stopped,
                   call>>

\* stopCleanupTask() that drops the handle without clearInterval.
StopCleanupTaskNoClear ==
    /\ instance = "live"
    /\ prev' = Snapshot
    /\ last' = Op("stop", "", 0, FALSE, FALSE)
    /\ stopped' = TRUE
    /\ cleanupInterval' = NoTimer
    /\ UNCHANGED <<instance, timeWindow, maxRequests, requests, timers, seen, call>>

\* stopCleanupTask()
StopCleanupTask ==
    /\ instance = "live"
    /\ prev' = Snapshot
    /\ last' = Op("stop", "", 0, FALSE, FALSE)
    /\ stopped' = TRUE
    /\ IF cleanupInterval # NoTimer
       THEN /\ timers' = timers \ {cleanupInterval}
            /\ cleanupInterval' = NoTimer
       ELSE UNCHANGED <<cleanupInterval, timers>>
    /\ UNCHANGED <<instance, timeWindow, maxRequests, requests, seen, call>>

\* A call of getCurrentRequestCount(id).
GetCurrentRequestCount(id) ==
    /\ instance = "live"
    /\ prev' = Snapshot
    /\ last' = GetOp("count", id, getCurrentRequestCount(id))
    /\ UNCHANGED <<prog, seen, stopped, call>>

\* A call of getTrackedUserCount().
GetTrackedUserCount ==
    /\ instance = "live"
    /\ prev' = Snapshot
    /\ last' = GetOp("size", "", getTrackedUserCount)
    /\ UNCHANGED <<prog, seen, stopped, call>>

\* Any caller, any timestamps: the history observers are not kept.
Next ==
    \/ \E tw \in WindowArgs, mr \in QuotaArgs : Construct(tw, mr) /\ UNCHANGED history
    \/ \E id \in Clients, ts \in Timestamps : AcceptRequest(id, ts) /\ UNCHANGED history
    \/ \E now \in Instants : CleanupStaleRequests(now) /\ UNCHANGED history
    \/ StopCleanupTask /\ UNCHANGED history
    \/ \E id \in Clients : GetCurrentRequestCount(id) /\ UNCHANGED history
    \/ GetTrackedUserCount /\ UNCHANGED history

Spec == Init /\ [][Next]_vars

\* ------------------------------------------------ sweeps that keep recurring

\* A sweep fired once the wall clock has passed every stored timestamp by a window.
LateSweep ==
    \E now \in Instants :
        /\ now >= MaxTs + MaxWindow
        /\ CleanupStaleRequests(now)
        /\ UNCHANGED history

\* The interval keeps firing while it is active, and the wall clock advances.
FairSpec == Spec /\ WF_vars(LateSweep)

\* ------------------------------------------ the cleanup task started again

\* startCleanupTask() called from inside the class while a timer is active.
RestartCleanupTask ==
    /\ instance = "live"
    /\ cleanupInterval # NoTimer
    /\ prev' = Snapshot
    /\ last' = Op("start", "", 0, FALSE, FALSE)
    /\ startCleanupTask
    /\ UNCHANGED <<instance, timeWindow, maxRequests, requests, seen, stopped, call>>

RestartNext ==
    \/ Next
    \/ RestartCleanupTask /\ UNCHANGED history

RestartSpec == Init /\ [][RestartNext]_vars

\* --------------------------------------- acceptRequest followed step by step

\* acceptRequest(id, ts) up to the lookup: a negative timestamp and an
\* untracked id return at once; otherwise the call holds the id's array.
AcceptLookup(id, ts) ==
    /\ instance = "live"
    /\ ~call.active
    /\ IF Malformed(ts) \/ id \notin Tracked
       THEN AcceptRequest(id, ts)
       ELSE /\ call' = [active |-> TRUE, id |-> id, ts |-> ts]
            /\ prev' = Snapshot
            /\ last' = Op("lookup", id, ts, FALSE, FALSE)
            /\ seen' = seen \cup {id}
            /\ UNCHANGED <<prog, stopped>>

\* The rest of the call: prune, quota check and push on the array it holds.
\* An array whose key was deleted meanwhile is empty and no longer in the
\* store: the push is admitted and lands outside the store.
AcceptFinish ==
    /\ call.active
    /\ prev' = Snapshot
    /\ call' = NoCall
    /\ IF call.id \in Tracked
       THEN /\ requests' = AcceptStore(call.id, call.ts)
            /\ last' = Op("accept", call.id, call.ts, AcceptResult(call.id, call.ts), FALSE)
       ELSE /\ UNCHANGED requests
            /\ last' = Op("accept", call.id, call.ts, TRUE, FALSE)
    /\ UNCHANGED <<instance, timeWindow, maxRequests, cleanupInterval, timers, seen, stopped>>

\* The callers' code is synchronous: stopCleanupTask is not called while an
\* acceptRequest call is running.
SteppedNext ==
    \/ \E tw \in WindowArgs, mr \in QuotaArgs : Construct(tw, mr) /\ UNCHANGED history
    \/ \E id \in Clients, ts \in Timestamps : AcceptLookup(id, ts) /\ UNCHANGED history
    \/ AcceptFinish /\ UNCHANGED history
    \/ \E now \in Instants : CleanupStaleRequests(now) /\ UNCHANGED history
    \/ ~call.active /\ StopCleanupTask /\ UNCHANGED history

SteppedSpec == Init /\ [][SteppedNext]_vars

\* ------------------------------------------- callers with ordered timestamps

TotalAdmitted == Len(admitted["A"]) + Len(admitted["B"])

\* acceptRequest(id, ts) from a caller whose timestamps for id are non-negative
\* and non-decreasing; the admitted timestamps are recorded.
OrderedAccept(id, ts) ==
    /\ ts >= 0
    /\ ts >= lastTs[id]
    /\ TotalAdmitted < MaxHistory
    /\ AcceptRequest(id, ts)
    /\ lastTs' = [lastTs EXCEPT ![id] = ts]
    /\ admitted' = [admitted EXCEPT ![id] = IF AcceptResult(id, ts) THEN Append(@, ts) ELSE @]
    /\ UNCHANGED swept

\* A sweep, recorded for the clients that have called before it.
ObservedSweep(now) ==
    /\ CleanupStaleRequests(now)
    /\ swept' = [c \in Clients |-> swept[c] \/ c \in seen]
    /\ UNCHANGED <<admitted, lastTs>>

OrderedNext ==
    \/ \E tw \in WindowArgs, mr \in QuotaArgs : Construct(tw, mr) /\ UNCHANGED history
    \/ \E id \in Clients, ts \in Timestamps : OrderedAccept(id, ts)
    \/ \E now \in Instants : ObservedSweep(now)
    \/ StopCleanupTask /\ UNCHANGED history

OrderedSpec == Init /\ [][OrderedNext]_vars

\* ------------------------------------------------------------------ claims

LastAccept == last.op = "accept"
LastSweep == last.op = "sweep"
\* The log of client c before the last operation (empty when c was untracked).
TrackedBefore == DOMAIN prev.requests
LogBefore(c) == IF c \in TrackedBefore THEN prev.requests[c] ELSE <<>>
\* How many entries of log lie in the window (ref - W, ref].
InWindow(log, ref) == Cardinality({i \in DOMAIN log : ref - log[i] < timeWindow})

\* How many entries of log equal t.
Occurrences(log, t) == Cardinality({i \in DOMAIN log : log[i] = t})

\* C1: every stored log holds at most maxRequests timestamps, and when
\* acceptRequest(c, now) has returned, at most maxRequests entries t of c's log
\* have now - t < timeWindow.
C1_QuotaBound ==
    /\ \A c \in Tracked : Len(requests[c]) <= maxRequests
    /\ (LastAccept /\ last.id \in Tracked) =>
           InWindow(requests[last.id], last.ts) <= maxRequests

\* A denied request on a log that is full, with a quota of at least two.
C1_Witness ==
    /\ LastAccept /\ ~last.ret /\ last.ts >= 0
    /\ maxRequests >= 2
    /\ Len(requests[last.id]) = maxRequests
    /\ InWindow(requests[last.id], last.ts) = maxRequests

\* The timestamps admitted for the last call's client before that call.
AdmittedBefore ==
    IF last.ret
    THEN SubSeq(admitted[last.id], 1, Len(admitted[last.id]) - 1)
    ELSE admitted[last.id]

\* C2: with ordered timestamps and no sweep since the client's first call,
\* acceptRequest(c, ts) returns true exactly when fewer than maxRequests of the
\* timestamps admitted for c so far lie within timeWindow of ts.
C2_AdmitIffWindowCount ==
    (LastAccept /\ ~swept[last.id]) =>
        (last.ret <=> InWindow(AdmittedBefore, last.ts) < maxRequests)

\* A denial after the window has slid: more than maxRequests requests were
\* admitted for the client, the older ones have left the log.
C2_Witness ==
    /\ LastAccept /\ ~last.ret /\ ~swept[last.id]
    /\ maxRequests >= 2
    /\ Len(admitted[last.id]) > maxRequests
    /\ Len(requests[last.id]) < Len(admitted[last.id])

\* C3: half-open window. A front entry exactly timeWindow old is removed and
\* not counted (a full log then admits); a front entry timeWindow - 1 old is
\* retained and counted (a full log then denies and is left as it was).
C3_HalfOpenWindow ==
    (LastAccept /\ last.ts >= 0 /\ last.id \in TrackedBefore) =>
        LET log == LogBefore(last.id)
            now == requests[last.id]
            full == Len(log) = maxRequests
        IN  /\ last.ts - log[1] = timeWindow =>
                /\ Occurrences(now, log[1]) < Occurrences(log, log[1])
                /\ full => (last.ret /\ now[Len(now)] = last.ts)
            /\ last.ts - log[1] = timeWindow - 1 =>
                /\ now[1] = log[1]
                /\ full => (~last.ret /\ now = log)

\* A full log of two entries whose oldest is exactly timeWindow old: admitted.
C3_Witness ==
    /\ LastAccept /\ last.ret
    /\ last.id \in TrackedBefore
    /\ maxRequests >= 2
    /\ Len(LogBefore(last.id)) = maxRequests
    /\ last.ts - LogBefore(last.id)[1] = timeWindow
    /\ last.ts - LogBefore(last.id)[2] < timeWindow

\* C4 as stated: the first acceptRequest call ever made for a client returns
\* true and creates the client's log holding exactly the submitted timestamp.
C4_FirstCallAdmitted ==
    (LastAccept /\ last.id \notin prev.seen) =>
        /\ last.ret
        /\ last.id \in Tracked
        /\ requests[last.id] = <<last.ts>>

\* C4 amended: the first acceptRequest call ever made for a client, when its
\* timestamp is non-negative, returns true and creates the client's log
\* holding exactly that timestamp.
C4_FirstValidCallAdmitted ==
    (LastAccept /\ last.id \notin prev.seen /\ last.ts >= 0) =>
        /\ last.ret
        /\ last.id \in Tracked
        /\ requests[last.id] = <<last.ts>>

\* A client's first call, made while the other client's log is full.
C4_Witness ==
    /\ LastAccept /\ last.ret /\ last.id \notin prev.seen
    /\ \E c \in Tracked \ {last.id} : Len(requests[c]) = maxRequests /\ maxRequests >= 2

\* C5: acceptRequest for one client leaves the log and the tracked status of
\* every other client as they were.
C5_OtherClientsUntouched ==
    LastAccept =>
        \A c \in Clients \ {last.id} :
            /\ (c \in Tracked) = (c \in TrackedBefore)
            /\ c \in Tracked => requests[c] = prev.requests[c]

\* A call that pruned its own client's log while the other client's log held
\* an entry just as stale.
C5_Witness ==
    /\ LastAccept /\ last.ts >= 0
    /\ last.id \in TrackedBefore
    /\ Len(requests[last.id]) <= Len(LogBefore(last.id))
    /\ last.ret
    /\ \E c \in Tracked \ {last.id} : last.ts - requests[c][1] >= timeWindow

\* C6: acceptRequest with a negative timestamp returns false, raises nothing
\* and leaves the store as it was.
C6_NegativeRejected ==
    (LastAccept /\ last.ts < 0) =>
        /\ ~last.ret
        /\ ~last.threw
        /\ requests = prev.requests

\* A negative timestamp for a tracked client whose log had room.
C6_Witness ==
    /\ LastAccept /\ last.ts < 0
    /\ last.id \in Tracked
    /\ Len(requests[last.id]) < maxRequests
    /\ \E c \in Clients : c \notin Tracked

\* C7: construction throws exactly when timeWindow <= 0 or maxRequests <= 0;
\* a failed construction leaves no instance to call and no timer, a successful
\* one an empty store and the cleanup timer running.
C7_Construction ==
    /\ last.op = "construct" => (last.threw <=> (last.tw <= 0 \/ last.mr <= 0))
    /\ instance = "failed" =>
           /\ last.op = "construct" /\ last.threw
           /\ timers = {} /\ cleanupInterval = NoTimer
    /\ (last.op = "construct" /\ ~last.threw) =>
           /\ instance = "live"
           /\ timeWindow = last.tw /\ maxRequests = last.mr
           /\ requests = <<>>
           /\ cleanupInterval # NoTimer
           /\ timers = {cleanupInterval}
    /\ instance = "live" => (timeWindow > 0 /\ maxRequests > 0)

\* construct(0, n) with n positive has thrown.
C7_Witness ==
    /\ instance = "failed"
    /\ last.tw = 0 /\ last.mr > 0

\* C8: a client whose every entry is stale at the sweep's instant is gone from
\* the store after the sweep, whatever the order of its entries.
C8_SweepRemovesAllStale ==
    LastSweep =>
        \A c \in TrackedBefore :
            (\A i \in DOMAIN prev.requests[c] : last.ts - prev.requests[c][i] >= timeWindow)
                => /\ c \notin Tracked
                   /\ getTrackedUserCount < Cardinality(TrackedBefore)

\* A sweep has removed a client whose log was out of order and all stale.
C8_Witness ==
    /\ LastSweep
    /\ \E c \in TrackedBefore \ Tracked :
          /\ Len(prev.requests[c]) >= 2
          /\ prev.requests[c][1] > prev.requests[c][2]
          /\ \A i \in DOMAIN prev.requests[c] : last.ts - prev.requests[c][i] >= timeWindow

\* The admitted timestamps of c that lie in the half-open interval [s, s + W).
AdmittedIn(c, s) ==
    Cardinality({i \in DOMAIN admitted[c] : s <= admitted[c][i] /\ admitted[c][i] < s + timeWindow})

\* C9: for a client with ordered timestamps, and for every interleaving of
\* sweeps, no half-open interval of length timeWindow holds more than
\* maxRequests of the timestamps ever admitted for the client.
C9_WindowQuotaUnderSweeps ==
    instance = "live" =>
        \A c \in Clients : \A s \in 0 .. MaxTs : AdmittedIn(c, s) <= maxRequests

\* C10: after stopCleanupTask no sweep ever runs and no timer is left or
\* started; the call raises nothing and leaves the store alone; a further call
\* changes nothing at all.
C10_StopIdempotentFinal ==
    /\ stopped => ~LastSweep
    /\ stopped => (timers = {} /\ cleanupInterval = NoTimer)
    /\ last.op = "stop" => (~last.threw /\ requests = prev.requests)
    /\ (last.op = "stop" /\ prev.stopped) =>
           /\ cleanupInterval = prev.cleanupInterval
           /\ timers = prev.timers
           /\ requests = prev.requests

\* A second stopCleanupTask call, with a client still tracked.
C10_Witness ==
    /\ last.op = "stop"
    /\ prev.stopped
    /\ Tracked # {}

\* The clients that have at least one stored timestamp.
ClientsWithEntries == {c \in Clients : c \in Tracked /\ Len(requests[c]) >= 1}

\* C13: getCurrentRequestCount(c) returns the length of c's stored log as it
\* is, 0 for an untracked client, and leaves the store as it was.
C13_CountIsStoredLength ==
    last.op = "count" =>
        /\ last.val = Len(LogBefore(last.id))
        /\ last.id \notin TrackedBefore => last.val = 0
        /\ ~last.threw
        /\ requests = prev.requests

\* The count of a two-entry log whose second entry is a full window older
\* than its first: the stale entry is counted.
C13_Witness ==
    /\ last.op = "count"
    /\ last.val = 2
    /\ requests[last.id][1] - requests[last.id][2] >= timeWindow
    /\ \E c \in Clients : c \notin Tracked

\* C17: every key of the store maps to a non-empty log, and getTrackedUserCount
\* returns the number of clients that have at least one stored timestamp.
C17_NoEmptyLogs ==
    /\ \A c \in Tracked : Len(requests[c]) >= 1
    /\ last.op = "size" =>
           /\ last.val = Cardinality(ClientsWithEntries)
           /\ requests = prev.requests

\* A sweep has emptied and deleted one client and shortened the log of another.
C17_Witness ==
    /\ LastSweep
    /\ TrackedBefore \ Tracked # {}
    /\ \E d \in Tracked : Len(requests[d]) < Len(prev.requests[d])

\* C11: an instance has at most one active cleanup timer: exactly one, the one
\* cleanupInterval holds, from construction until stopCleanupTask, none before
\* and none afterwards; starting the task again clears the previous timer.
C11_AtMostOneTimer ==
    /\ Cardinality(timers) <= 1
    /\ (instance = "live" /\ ~stopped) =>
           (cleanupInterval # NoTimer /\ timers = {cleanupInterval})
    /\ stopped => (timers = {} /\ cleanupInterval = NoTimer)
    /\ instance # "live" => (timers = {} /\ cleanupInterval = NoTimer)
    /\ last.op = "start" =>
           /\ prev.cleanupInterval \notin timers
           /\ cleanupInterval # prev.cleanupInterval

\* The task has been started again while the constructor's timer was active.
C11_Witness ==
    /\ last.op = "start"
    /\ prev.timers # {}
    /\ prev.cleanupInterval \in prev.timers
    /\ Tracked # {}

CalledFor(c) == LastAccept /\ last.id = c

\* C12: if the cleanup task is never stopped, and sweeps recur while the wall
\* clock advances, every tracked client is eventually removed from the store
\* unless acceptRequest is called for it again.
C12_EventualReclamation ==
    ([]~stopped) =>
        \A c \in Clients :
            (c \in Tracked /\ ~CalledFor(c)) ~> (c \notin Tracked \/ CalledFor(c))

\* A late sweep of the running task has removed both clients from the store.
C12_Witness ==
    /\ LastSweep
    /\ ~stopped
    /\ last.ts >= MaxTs + MaxWindow
    /\ TrackedBefore = Clients
    /\ Tracked = {}

\* C14: with ordered timestamps, right after acceptRequest(c, ts) on a
\* tracked client every entry t left in c's log has ts - t < timeWindow, and
\* right after a sweep at instant now every entry t left in any log has
\* now - t < timeWindow.
C14_PrunedToDate ==
    /\ (LastAccept /\ last.id \in TrackedBefore) =>
           \A i \in DOMAIN requests[last.id] : last.ts - requests[last.id][i] < timeWindow
    /\ LastSweep =>
           \A c \in Tracked :
               \A i \in DOMAIN requests[c] : last.ts - requests[c][i] < timeWindow

\* A call that found two entries, both a full window old, and left only its own.
C14_Witness ==
    /\ LastAccept /\ last.ret
    /\ Len(LogBefore(last.id)) = 2
    /\ \A i \in 1 .. 2 : last.ts - LogBefore(last.id)[i] >= timeWindow
    /\ requests[last.id] = <<last.ts>>

IsSorted(log) == \A i, j \in DOMAIN log : i < j => log[i] <= log[j]

\* C15: with ordered timestamps, every stored log is sorted in non-decreasing
\* order, oldest entry first, for any interleaving of sweeps.
C15_LogsSorted == \A c \in Tracked : IsSorted(requests[c])

\* After a sweep has run for the client, a call has left a log of two
\* different timestamps.
C15_Witness ==
    /\ LastAccept /\ last.ret
    /\ swept[last.id]
    /\ Len(requests[last.id]) = 2
    /\ requests[last.id][1] < requests[last.id][2]

\* C16: a non-negative timestamp older than an entry already in the client's
\* log is not special-cased: it raises nothing, is admitted when the log has
\* room, and when admitted it is appended at the end, behind a newer entry.
C16_OutOfOrderAppended ==
    (/\ LastAccept /\ last.ts >= 0 /\ last.id \in TrackedBefore
     /\ \E i \in DOMAIN LogBefore(last.id) : LogBefore(last.id)[i] > last.ts) =>
        LET log == LogBefore(last.id)
            now == requests[last.id]
        IN  /\ ~last.threw
            /\ Len(log) < maxRequests => last.ret
            /\ last.ret =>
                   /\ now[Len(now)] = last.ts
                   /\ \E j \in 1 .. (Len(now) - 1) : now[j] > last.ts

\* acceptRequest(c, ts) has returned leaving in c's log an entry at least a
\* window older than ts behind a newer entry that is inside the window.
C16_Witness ==
    /\ LastAccept /\ last.ts >= 0 /\ last.id \in Tracked
    /\ \E i, j \in DOMAIN requests[last.id] :
          /\ i < j
          /\ requests[last.id][i] > requests[last.id][j]
          /\ last.ts - requests[last.id][i] < timeWindow
          /\ last.ts - requests[last.id][j] >= timeWindow

\* The length of the longest front prefix of log whose entries are all at
\* least a window older than ref.
StalePrefix(log, ref) ==
    CHOOSE k \in 0 .. Len(log) :
        /\ \A i \in 1 .. k : ref - log[i] >= timeWindow
        /\ k < Len(log) => ref - log[k + 1] < timeWindow

\* C18: one sweep at instant now removes from each tracked log exactly its
\* longest front prefix of entries at least timeWindow old, keeps the rest in
\* order, adds no client, and deletes exactly the clients whose log it emptied,
\* every client tracked at its start being visited.
C18_SweepExact ==
    LastSweep =>
        /\ Tracked \subseteq TrackedBefore
        /\ \A c \in TrackedBefore :
               LET log == prev.requests[c]
                   k == StalePrefix(log, last.ts)
               IN  IF k = Len(log)
                   THEN c \notin Tracked
                   ELSE /\ c \in Tracked
                        /\ requests[c] = SubSeq(log, k + 1, Len(log))

\* A sweep that deleted one client and left the other's log whole, its stale
\* second entry sitting behind a front entry that is not stale.
C18_Witness ==
    /\ LastSweep
    /\ TrackedBefore = Clients
    /\ \E c \in Clients :
          /\ c \notin Tracked
          /\ \E d \in Tracked :
                /\ requests[d] = prev.requests[d]
                /\ Len(requests[d]) = 2
                /\ last.ts - requests[d][1] < timeWindow
                /\ last.ts - requests[d][2] >= timeWindow

\* C20: a denied acceptRequest leaves the whole store as it was, and a call
\* whose prune removes an entry (the front entry is stale) admits the request.
C20_DenialChangesNothing ==
    /\ (LastAccept /\ ~last.ret) => requests = prev.requests
    /\ (/\ LastAccept /\ last.ts >= 0 /\ last.id \in TrackedBefore
        /\ last.ts - LogBefore(last.id)[1] >= timeWindow) => last.ret

\* A denial on a full out-of-order log whose stale entry stays behind the
\* front entry.
C20_Witness ==
    /\ LastAccept /\ ~last.ret /\ last.ts >= 0
    /\ Len(LogBefore(last.id)) = 2
    /\ LogBefore(last.id)[1] > LogBefore(last.id)[2]
    /\ last.ts - LogBefore(last.id)[2] >= timeWindow
    /\ requests = prev.requests

\* C19: a sweep never runs between acceptRequest's lookup of the client's log
\* and its prune and append, so whenever acceptRequest(c, ts) returns true, c
\* is tracked and ts is the last entry of c's stored log.
C19_NoLostAdmission ==
    /\ LastSweep => ~prev.call.active
    /\ (LastAccept /\ last.ret) =>
           /\ last.id \in Tracked
           /\ requests[last.id][Len(requests[last.id])] = last.ts

\* A call that held the client's array between its lookup and its append has
\* returned true, while the timer was active and the array's only entry was
\* old enough for a sweep to delete the key.
C19_Witness ==
    /\ LastAccept /\ last.ret
    /\ prev.call.active
    /\ timers # {}
    /\ Len(prev.requests[last.id]) = 1
    /\ last.ts - prev.requests[last.id][1] >= timeWindow

====
